---- MODULE Spec2Model ----
(***************************************************************************)
(* Model of the arrangement state controller (App), the layout memo of a   *)
(* MorphingGroup as rendered by Scene, and the per-frame blend factor of   *)
(* MorphingGroup, TopStar and LogoElement.                                 *)
(*                                                                         *)
(* Time is counted in units of 1000 ms.  A handler, the render it causes   *)
(* and the effects of that render are one step.                            *)
(***************************************************************************)
EXTENDS Integers, FiniteSets, Sequences, TLC

VARIABLES
  treeState,        \* App: useState<TreeState>
  isAutoMode,       \* App: useState(true)
  idleTimerRef,     \* App: idleTimerRef.current (a timer id, or Null)
  timeoutId,        \* App: the timer id held by the effect's cleanup (Null: no cleanup)
  timers,           \* the host's pending timeouts: records [id, left, cb]
  configRef,        \* identity of the config object Scene passed on its last render
  data,             \* MorphingGroup: the memoised layout array
  generations,      \* number of times the layout generator has run (saturating)
  lastEvent,        \* history: the step that produced this state
  sinceToggle,      \* history: time since the last toggleState (saturating)
  sinceFirstToggle, \* history: time since the first toggleState of the current manual period
  sinceEntry,       \* history: time since treeState last changed (saturating)
  enteredInAuto,    \* history: treeState was last set by the auto-play loop (or initially)
  meshReady,        \* per animated component: meshRef.current is set
  factor,           \* per animated component: meshRef.current.userData.factor (<<>>: undefined)
  frames,           \* number of frames rendered
  osc,              \* the clock-driven values of the last frame: [time, s, c]
  transform,        \* per animated component: what its last frame wrote (<<>>: nothing yet)
  isRecording,      \* RecordButton: useState(false)
  mediaRecorderRef, \* RecordButton: mediaRecorderRef.current (a recorder id, or Null)
  chunksRef,        \* RecordButton: chunksRef.current, each chunk tagged with its recorder
  recorders,        \* the MediaRecorder objects still referenced: [id, state, queue, age, by]
  stopTimers,       \* pending auto-stop timeouts: [rec, left]
  download,         \* the chunks of the last file handed to the browser (<<>>: none)
  recEvent,         \* history: the last RecordButton step, and the recorder it concerned
  particles,        \* FloatingSnow: the memoised particle array (<<>>: not rendered yet)
  snowReady,        \* FloatingSnow: meshRef.current is set
  elapsed,          \* state.clock.elapsedTime as seen by FloatingSnow, in seconds
  snowY,            \* FloatingSnow: the y set for each particle by the last frame (<<>>: none)
  snowEvent         \* history: the last FloatingSnow step

appVars == <<treeState, isAutoMode, idleTimerRef, timeoutId, timers>>
sceneVars == <<configRef, data, generations>>
histVars == <<lastEvent, sinceToggle, sinceFirstToggle, sinceEntry, enteredInAuto>>
frameVars == <<meshReady, factor, frames, osc, transform>>
recVars == <<isRecording, mediaRecorderRef, chunksRef, recorders, stopTimers, download, recEvent>>
snowVars == <<particles, snowReady, elapsed, snowY, snowEvent>>
otherVars == <<recVars, snowVars>>
vars == <<appVars, sceneVars, histVars, frameVars, otherVars>>

----------------------------------------------------------------------------
(* Bounds *)

\* cap of the history clocks; above IdleDelay + TreeDwell
AgeCap == 20
\* config.count of the modelled MorphingGroup
InstanceCount == 1
\* cap of the generator-run counter
MaxGenerations == 2
\* number of frames rendered in a run of the frame loop
MaxFrames == 2
\* number of MediaRecorder objects alive at once (recording, or awaited by a timeout)
MaxRecorders == 2
\* `count` of the modelled FloatingSnow
SnowCount == 1
\* largest clock.elapsedTime a FloatingSnow frame sees, in seconds
MaxElapsed == 600

----------------------------------------------------------------------------
(* types.ts *)

TREE_SHAPE == "TREE_SHAPE"
SCATTERED == "SCATTERED"
TreeState == {SCATTERED, TREE_SHAPE}

Null == 0

\* The components whose useFrame callback blends toward the arrangement.
Components == {"MorphingGroup", "TopStar", "LogoElement"}

----------------------------------------------------------------------------
(* Host timers: setTimeout / clearTimeout *)

TimerIds(tm) == {t.id : t \in tm}

\* An id no pending timer has and the program does not hold.
FreshId(used) == CHOOSE i \in 1..(Cardinality(used) + 1) : i \notin used

SetTimeout(tm, id, delay, cb) == tm \cup {[id |-> id, left |-> delay, cb |-> cb]}

ClearTimeout(tm, id) == {t \in tm : t.id # id}

----------------------------------------------------------------------------
(* App *)

TreeDwell == 8
ScatterDwell == 4
IdleDelay == 10

Flip(prev) == IF prev = TREE_SHAPE THEN SCATTERED ELSE TREE_SHAPE

\* Variant: the two dwell times exchanged.
AutoPlayDelaySwapped(ts) == IF ts = TREE_SHAPE THEN ScatterDwell ELSE TreeDwell

\* The delay and the callback the auto-play effect schedules for an arrangement.
AutoPlayDelay(ts) == IF ts = TREE_SHAPE THEN TreeDwell ELSE ScatterDwell
AutoPlayCallback(ts) == IF ts = TREE_SHAPE THEN "setScattered" ELSE "setTree"

\* Variant: the effect returns no cleanup.
EffectCleanupMissing(tm, tid) == tm

\* return () => clearTimeout(timeoutId): only an effect run that scheduled a
\* timer returned a cleanup.
EffectCleanup(tm, tid) == IF tid = Null THEN tm ELSE ClearTimeout(tm, tid)

\* Variant: the effect lacks the `if (!isAutoMode) return` guard.
AutoPlayEffectAlways(ts, auto, tm, held) ==
  LET id == FreshId(TimerIds(tm) \cup held)
  IN [timers |-> SetTimeout(tm, id, AutoPlayDelay(ts), AutoPlayCallback(ts)),
      timeoutId |-> id]

\* The body of the auto-play effect for the committed state: the pending
\* timers after it and the id its cleanup holds.
AutoPlayEffect(ts, auto, tm, held) ==
  IF ~auto
    THEN [timers |-> tm, timeoutId |-> Null]
    ELSE LET id == FreshId(TimerIds(tm) \cup held)
         IN [timers |-> SetTimeout(tm, id, AutoPlayDelay(ts), AutoPlayCallback(ts)),
             timeoutId |-> id]

----------------------------------------------------------------------------
(* MorphingGroup layout (data useMemo) *)

\* Outcomes of one iteration of the generator loop (Math.random draws):
\* scatterPos inside the sphere of radius 35 and treePos on the cone with
\* y in [-9, 9], both in tenths; rotation (each Euler angle) in milliradians,
\* scale in thousandths.
PositionSamples ==
  { [scatterPos |-> <<200, -100, 50>>, treePos |-> <<30, -90, 0>>, rotation |-> 0, scale |-> 400],
    [scatterPos |-> <<-350, 0, 0>>, treePos |-> <<0, 90, 0>>, rotation |-> 3141, scale |-> 1600] }

\* All arrays the generator can return for a config with `count` instances.
GenerateLayout(count) == [1..count -> PositionSamples]

\* Scene builds the config as an object literal in its JSX: every render of
\* Scene passes an object no earlier render passed.
NewConfig(prev) == FreshId({prev})

\* useMemo(..., [config]): recomputed when the dependency is not the object
\* of the previous render.
MemoStale(prevConfig, config) == config # prevConfig

Bump(n) == IF n < MaxGenerations THEN n + 1 ELSE MaxGenerations

\* A render of App -> Scene -> MorphingGroup.
RenderScene ==
  LET config == NewConfig(configRef)
  IN /\ configRef' = config
     /\ IF MemoStale(configRef, config)
          THEN /\ data' \in GenerateLayout(InstanceCount)
               /\ generations' = Bump(generations)
          ELSE UNCHANGED <<data, generations>>

\* Commit of the state (ts, auto) after a handler that left the timers tm:
\* React re-renders only when a state changed, and re-runs the effect when
\* its dependencies [isAutoMode, treeState] changed.
Commit(ts, auto, tm, held) ==
  /\ treeState' = ts
  /\ isAutoMode' = auto
  /\ IF <<auto, ts>> # <<isAutoMode, treeState>>
       THEN LET eff == AutoPlayEffect(ts, auto, EffectCleanup(tm, timeoutId), held)
            IN /\ timers' = eff.timers
               /\ timeoutId' = eff.timeoutId
               /\ RenderScene
       ELSE /\ timers' = tm
            /\ UNCHANGED <<timeoutId, sceneVars>>

Age(n) == IF n < AgeCap THEN n + 1 ELSE AgeCap

ToggleHistory ==
  /\ lastEvent' = "toggle"
  /\ sinceToggle' = 0
  /\ sinceFirstToggle' = IF isAutoMode THEN 0 ELSE sinceFirstToggle
  /\ sinceEntry' = 0
  /\ enteredInAuto' = FALSE

\* Variant: toggleState without setIsAutoMode(false).
toggleStateNoPause ==
  LET tm1 == IF idleTimerRef # Null THEN ClearTimeout(timers, idleTimerRef) ELSE timers
      id == FreshId(TimerIds(tm1) \cup {idleTimerRef, timeoutId})
      tm2 == SetTimeout(tm1, id, IdleDelay, "resumeAuto")
  IN /\ idleTimerRef' = id
     /\ Commit(Flip(treeState), isAutoMode, tm2, {id, timeoutId})
     /\ ToggleHistory
     /\ UNCHANGED <<frameVars, otherVars>>

\* Variant: toggleState that leaves a pending idle timer running and starts none.
toggleStateNoReset ==
  LET pending == idleTimerRef \in TimerIds(timers)
      id == FreshId(TimerIds(timers) \cup {idleTimerRef, timeoutId})
      tm2 == IF pending THEN timers ELSE SetTimeout(timers, id, IdleDelay, "resumeAuto")
  IN /\ idleTimerRef' = IF pending THEN idleTimerRef ELSE id
     /\ Commit(Flip(treeState), FALSE, tm2, {id, idleTimerRef, timeoutId})
     /\ ToggleHistory
     /\ UNCHANGED <<frameVars, otherVars>>

\* Variant: toggleState without clearTimeout(idleTimerRef.current).
toggleStateKeepIdle ==
  LET id == FreshId(TimerIds(timers) \cup {idleTimerRef, timeoutId})
      tm2 == SetTimeout(timers, id, IdleDelay, "resumeAuto")
  IN /\ idleTimerRef' = id
     /\ Commit(Flip(treeState), FALSE, tm2, {id, timeoutId})
     /\ ToggleHistory
     /\ UNCHANGED <<frameVars, otherVars>>

\* toggleState: the Canvas onClick handler.
toggleState ==
  LET tm1 == IF idleTimerRef # Null THEN ClearTimeout(timers, idleTimerRef) ELSE timers
      id == FreshId(TimerIds(tm1) \cup {idleTimerRef, timeoutId})
      tm2 == SetTimeout(tm1, id, IdleDelay, "resumeAuto")
  IN /\ idleTimerRef' = id
     /\ Commit(Flip(treeState), FALSE, tm2, {id, timeoutId})
     /\ ToggleHistory
     /\ UNCHANGED <<frameVars, otherVars>>

\* Variant: the idle callback also flips the arrangement.
CallbackTreeResumeFlips(cb) ==
  CASE cb = "setScattered" -> SCATTERED
    [] cb = "setTree" -> TREE_SHAPE
    [] OTHER -> Flip(treeState)

\* The state a timer callback sets.
CallbackTree(cb) ==
  CASE cb = "setScattered" -> SCATTERED
    [] cb = "setTree" -> TREE_SHAPE
    [] OTHER -> treeState

\* Variant: the idle callback does not switch auto mode on.
CallbackAutoNever(cb) == isAutoMode

CallbackAuto(cb) == IF cb = "resumeAuto" THEN TRUE ELSE isAutoMode

\* A due timeout runs its callback.
Fire(t) ==
  /\ t \in timers
  /\ t.left = 0
  /\ Commit(CallbackTree(t.cb), CallbackAuto(t.cb), timers \ {t}, {idleTimerRef, timeoutId})
  /\ lastEvent' = IF t.cb = "resumeAuto" THEN "idle" ELSE "dwell"
  /\ sinceEntry' = IF CallbackTree(t.cb) # treeState THEN 0 ELSE sinceEntry
  /\ enteredInAuto' = IF CallbackTree(t.cb) # treeState THEN TRUE ELSE enteredInAuto
  /\ UNCHANGED <<idleTimerRef, sinceToggle, sinceFirstToggle, frameVars, otherVars>>

DwellFire == \E t \in timers : t.cb # "resumeAuto" /\ Fire(t)

IdleFire == \E t \in timers : t.cb = "resumeAuto" /\ Fire(t)

\* One time unit passes; the host runs a timeout when it is due.
Tick ==
  /\ \A t \in timers : t.left > 0
  /\ timers' = {[t EXCEPT !.left = t.left - 1] : t \in timers}
  /\ lastEvent' = "tick"
  /\ sinceToggle' = Age(sinceToggle)
  /\ sinceFirstToggle' = Age(sinceFirstToggle)
  /\ sinceEntry' = Age(sinceEntry)
  /\ UNCHANGED <<treeState, isAutoMode, idleTimerRef, timeoutId, sceneVars, enteredInAuto, frameVars, otherVars>>

\* The first render: state from useState, the effect has run, the layout is generated.
Init ==
  /\ treeState = TREE_SHAPE
  /\ isAutoMode = TRUE
  /\ idleTimerRef = Null
  /\ timeoutId = AutoPlayEffect(TREE_SHAPE, TRUE, {}, {}).timeoutId
  /\ timers = AutoPlayEffect(TREE_SHAPE, TRUE, {}, {}).timers
  /\ configRef = 1
  /\ data \in GenerateLayout(InstanceCount)
  /\ generations = 1
  /\ lastEvent = "init"
  /\ sinceToggle = AgeCap
  /\ sinceFirstToggle = AgeCap
  /\ sinceEntry = 0
  /\ enteredInAuto = TRUE
  /\ meshReady = [k \in Components |-> FALSE]
  /\ factor = [k \in Components |-> <<>>]
  /\ frames = 0
  /\ osc = [time |-> 0, s |-> 0, c |-> 0]
  /\ transform = [k \in Components |-> <<>>]
  /\ isRecording = FALSE
  /\ mediaRecorderRef = Null
  /\ chunksRef = <<>>
  /\ recorders = {}
  /\ stopTimers = {}
  /\ download = <<>>
  /\ recEvent = <<"init", Null, "none">>
  /\ particles = <<>>
  /\ snowReady = FALSE
  /\ elapsed = 0
  /\ snowY = <<>>
  /\ snowEvent = "init"

Next == toggleState \/ DwellFire \/ IdleFire \/ Tick

Spec == Init /\ [][Next]_vars

\* The host keeps time running and runs every timeout that is due.
SpecLive ==
  Init /\ [][Next]_vars /\ WF_vars(Tick) /\ WF_vars(DwellFire) /\ WF_vars(IdleFire)

----------------------------------------------------------------------------
(* Frame loop: the useFrame callbacks of MorphingGroup, TopStar, LogoElement *)

\* Blend factors and interpolation weights are fixed-point numbers, in
\* thousandths; a result is rounded down to a thousandth.
Fixed(n) == 1000 * n

\* const speed = 2.5 (MorphingGroup), 2.0 (TopStar, LogoElement), in tenths.
Speed(k) == IF k = "MorphingGroup" THEN 25 ELSE 20

\* Frame deltas the clock can report, in milliseconds: a stalled clock, a
\* 60 Hz frame, slow frames, and frames after the page was in the background.
FrameDeltas == {0, 16, 400, 500, 1000, 2000}

\* delta * speed, in thousandths (delta in ms, speed in tenths).
Weight(delta, k) == (delta * Speed(k)) \div 10

\* THREE.MathUtils.lerp(x, y, t) = (1 - t) * x + t * y
Lerp(x, y, t) == ((Fixed(1) - t) * x + t * y) \div Fixed(1)

\* state === TreeState.TREE_SHAPE ? 1 : 0
TargetFactor(ts) == IF ts = TREE_SHAPE THEN Fixed(1) ELSE Fixed(0)

\* meshRef.current.userData.factor ?? 0
CurrentFactor(k) == IF factor[k] = <<>> THEN Fixed(0) ELSE factor[k][1]

\* The factor one useFrame callback stores.
NewFactor(k, delta) == Lerp(CurrentFactor(k), TargetFactor(treeState), Weight(delta, k))

Abs(n) == IF n < 0 THEN -n ELSE n

\* Round toward zero, as the magnitude of a product is never rounded up.
TruncDiv(a, b) == IF a >= 0 THEN a \div b ELSE -((-a) \div b)

\* What a frame reads from the clock: elapsedTime (in thousandths of a
\* second) and the values its sine and cosine oscillators take then (in
\* thousandths; the phase offsets make any value in [-1, 1] possible).
OscSamples ==
  { [time |-> 0, s |-> 0, c |-> 1000],
    [time |-> 2000, s |-> 1000, c |-> -1000],
    [time |-> 7000, s |-> -1000, c |-> 500] }

\* A vector given in tenths, in thousandths.
Milli(v) == [a \in 1..3 |-> 100 * v[a]]

\* Vector3.lerpVectors(v1, v2, alpha) = v1 + (v2 - v1) * alpha, in thousandths
\* (v1 and v2 in tenths, alpha in thousandths).
LerpVectors(v1, v2, alpha) ==
  [a \in 1..3 |-> Milli(v1)[a] + TruncDiv((v2[a] - v1[a]) * alpha, 10)]

\* Variant: the float grows with the factor.
FloatIntensityGrowing(f) == 1000 + TruncDiv(f * 8, 10)

\* const floatIntensity = 1 - newFactor * 0.8
FloatIntensity(f) == 1000 - TruncDiv(f * 8, 10)

\* The geometryType of the modelled group, and its spin per second.
GeometryType == "sphere"
SpinRate(geometryType) == IF geometryType = "candyCane" THEN 500 ELSE 200

\* MorphingGroup: the transform written for one item.
GroupItem(item, f, o) ==
  LET base == LerpVectors(item.scatterPos, item.treePos, f)
      floatY == TruncDiv(o.s * FloatIntensity(f), 2000)
      floatX == TruncDiv(o.c * FloatIntensity(f), 2000)
      spin == TruncDiv(o.time * SpinRate(GeometryType), 1000)
  IN [position |-> <<base[1] + floatX, base[2] + floatY, base[3]>>,
      rotation |-> <<item.rotation + spin, item.rotation + spin, item.rotation>>,
      scale |-> item.scale]

GroupTransform(f, o) ==
  [inst |-> [i \in 1..Len(data) |-> GroupItem(data[i], f, o)],
   amp |-> TruncDiv(Abs(FloatIntensity(f)), 2)]

\* TopStar: treePos, and one outcome of the scatterPos draw (radius 40), in tenths.
StarTreePos == <<0, 105, 0>>
StarScatterPos == <<0, -400, 0>>

\* TopStar keeps spinning and has no overlay added to its position.
StarTransform(f, o) ==
  LET tumble == (1000 - f) * 2
      scaleBase == Lerp(800, 1200, f)
  IN [inst |-> << [position |-> LerpVectors(StarScatterPos, StarTreePos, f),
                   rotation |-> <<TruncDiv(o.s, 10) * TruncDiv(tumble, 100),
                                  TruncDiv(o.time, 2),
                                  TruncDiv(o.c, 10) * TruncDiv(tumble, 100)>>,
                   scale |-> scaleBase + TruncDiv(scaleBase * TruncDiv(o.s, 20), 1000)] >>,
      amp |-> 0]

\* LogoElement: finalTreePos of the first element, and one outcome of the
\* scatterConfig draws (pos in tenths, rotSpeed in thousandths, randomPhase 0).
LogoTreePos == <<-24, -2, 110>>
LogoScatter == [pos |-> <<100, -50, 30>>, rotSpeed |-> <<100, 200, 300>>]

\* Variant: the snap threshold is never met.
LogoSnapsNever(f) == FALSE

\* if (newFactor > 0.95)
LogoSnaps(f) == f > 950

\* Variant: the logo never bobs.
LogoBobsNever(f) == FALSE

\* if (newFactor > 0.8)
LogoBobs(f) == f > 800

LogoTransform(f, o) ==
  LET base == LerpVectors(LogoScatter.pos, LogoTreePos, f)
      inv == 1000 - f
      tumble == [a \in 1..3 |-> TruncDiv(o.time * LogoScatter.rotSpeed[a], 1000)]
      bob == IF LogoBobs(f) THEN TruncDiv(o.s * 2, 1000) ELSE 0
  IN [inst |-> << [position |-> <<base[1], base[2] + bob, base[3]>>,
                   rotation |-> IF LogoSnaps(f)
                                  THEN <<0, 0, 0>>
                                  ELSE <<TruncDiv(tumble[1] * inv, 1000),
                                         TruncDiv(tumble[2] * inv, 1000),
                                         TruncDiv(TruncDiv(tumble[3], 2) * inv, 1000)>>] >>,
      amp |-> IF LogoBobs(f) THEN 2 ELSE 0]

\* What the useFrame callback of component k writes for the new factor f.
Transform(k, f, o) ==
  CASE k = "MorphingGroup" -> GroupTransform(f, o)
    [] k = "TopStar" -> StarTransform(f, o)
    [] OTHER -> LogoTransform(f, o)

\* The renderer attaches the component's ref.
Mount(k) ==
  /\ ~meshReady[k]
  /\ meshReady' = [meshReady EXCEPT ![k] = TRUE]
  /\ lastEvent' = "mount"
  /\ UNCHANGED <<appVars, sceneVars, factor, frames, osc, transform, otherVars>>
  /\ UNCHANGED <<sinceToggle, sinceFirstToggle, sinceEntry, enteredInAuto>>

\* Variant: the callback does not test its handle.
HandleAlways(k) == TRUE

\* meshRef.current of component k is set.
HandleReady(k) == meshReady[k]

\* The useFrame callbacks of MorphingGroup, TopStar and LogoElement in one
\* rendered frame: each runs with the same delta and the arrangement of the
\* last render, and returns at once `if (!meshRef.current)`. The clock does
\* not run backwards.
FrameEffect(delta) ==
  /\ frames < MaxFrames
  /\ frames' = frames + 1
  /\ osc' \in OscSamples
  /\ osc'.time >= osc.time
  /\ factor' = [k \in Components |->
                  IF HandleReady(k) THEN <<NewFactor(k, delta)>> ELSE factor[k]]
  /\ transform' = [k \in Components |->
                     IF HandleReady(k) THEN Transform(k, NewFactor(k, delta), osc')
                                     ELSE transform[k]]

Frame(delta) ==
  /\ FrameEffect(delta)
  /\ lastEvent' = "frame"
  /\ UNCHANGED <<appVars, sceneVars, meshReady, otherVars>>
  /\ UNCHANGED <<sinceToggle, sinceFirstToggle, sinceEntry, enteredInAuto>>

MountAny == \E k \in Components : Mount(k)

FrameAny == \E delta \in FrameDeltas : Frame(delta)

NextFrame == toggleState \/ MountAny \/ FrameAny

SpecFrame == Init /\ [][NextFrame]_vars

----------------------------------------------------------------------------
(* RecordButton *)

RecordDuration == 14

Recorder(id) == CHOOSE r \in recorders : r.id = id

Recording == {r \in recorders : r.state = "recording"}

\* A recorder object stays referenced while it records, has events to
\* deliver, or an auto-stop timeout holds it.
Referenced(rs, tm) ==
  {r \in rs : r.state = "recording" \/ r.queue # <<>> \/ \E t \in tm : t.rec = r.id}

\* MediaRecorder.stop(), or the host ending the recording: the recorder
\* becomes inactive and delivers the recorded data (started without a
\* timeslice: one blob, of `size`), then the stop event.
StopRecorder(rs, id, size, by) ==
  {IF r.id = id
     THEN [r EXCEPT !.state = "inactive", !.by = by, !.age = 0,
                    !.queue = <<<<"data", size>>, <<"stop", 0>>>>]
     ELSE r : r \in rs}

\* Variant: the timeout callback does nothing.
AutoStopCallbackNoop(rs, id, size) == rs

\* The timeout callback: if (recorder.state === 'recording') recorder.stop().
AutoStopCallback(rs, id, size) ==
  IF \E r \in rs : r.id = id /\ r.state = "recording"
    THEN StopRecorder(rs, id, size, "timer")
    ELSE rs

\* Variant: the button is never disabled.
ButtonAlwaysEnabled == TRUE

\* onClick={isRecording ? undefined : startRecording}, disabled={isRecording}
ButtonEnabled == ~isRecording

startRecording ==
  /\ ButtonEnabled
  /\ Cardinality(recorders) < MaxRecorders
  /\ LET id == FreshId({r.id : r \in recorders} \cup {mediaRecorderRef})
     IN /\ recorders' = recorders \cup {[id |-> id, state |-> "recording", queue |-> <<>>,
                                           age |-> 0, by |-> "none"]}
        /\ isRecording' = TRUE
        /\ mediaRecorderRef' = id
        /\ stopTimers' = stopTimers \cup {[rec |-> id, left |-> RecordDuration]}
        /\ recEvent' = <<"start", id, "none">>
  /\ UNCHANGED <<chunksRef, download>>
  /\ UNCHANGED <<appVars, sceneVars, histVars, frameVars, snowVars>>

\* A due auto-stop timeout runs its callback on the recorder it closed over.
AutoStopFire ==
  \E t \in stopTimers, size \in {0, 1} :
    /\ t.left = 0
    /\ stopTimers' = stopTimers \ {t}
    /\ recorders' = Referenced(AutoStopCallback(recorders, t.rec, size), stopTimers')
    /\ recEvent' = <<IF \E r \in Recording : r.id = t.rec THEN "autostop" ELSE "expired",
                      t.rec, "timer">>
    /\ UNCHANGED <<isRecording, mediaRecorderRef, chunksRef, download>>
    /\ UNCHANGED <<appVars, sceneVars, histVars, frameVars, snowVars>>

\* The host ends a recording by itself (the captured stream ended, or an error).
RecorderEnds ==
  \E r \in Recording, size \in {0, 1} :
    /\ recorders' = StopRecorder(recorders, r.id, size, "host")
    /\ recEvent' = <<"ends", r.id, "host">>
    /\ UNCHANGED <<isRecording, mediaRecorderRef, chunksRef, stopTimers, download>>
    /\ UNCHANGED <<appVars, sceneVars, histVars, frameVars, snowVars>>

\* recorder.ondataavailable
OnDataAvailable(r) ==
  /\ chunksRef' = IF r.queue[1][2] > 0 THEN Append(chunksRef, r.id) ELSE chunksRef
  /\ recEvent' = <<"data", r.id, r.by>>
  /\ UNCHANGED <<isRecording, download>>

\* recorder.onstop
OnStop(r) ==
  /\ download' = <<chunksRef>>
  /\ chunksRef' = <<>>
  /\ isRecording' = FALSE
  /\ recEvent' = <<"onstop", r.id, r.by>>

\* The host delivers the next event of a recorder to its handler.
Dispatch ==
  \E r \in recorders :
    /\ r.queue # <<>>
    /\ IF r.queue[1][1] = "data" THEN OnDataAvailable(r) ELSE OnStop(r)
    /\ recorders' = Referenced((recorders \ {r}) \cup {[r EXCEPT !.queue = Tail(r.queue)]},
                               stopTimers)
    /\ UNCHANGED <<mediaRecorderRef, stopTimers>>
    /\ UNCHANGED <<appVars, sceneVars, histVars, frameVars, snowVars>>

\* One time unit passes for the auto-stop timeouts.
RecTick ==
  /\ stopTimers # {}
  /\ \A t \in stopTimers : t.left > 0
  /\ stopTimers' = {[t EXCEPT !.left = t.left - 1] : t \in stopTimers}
  /\ recorders' = {IF r.state = "recording" THEN [r EXCEPT !.age = Age(r.age)] ELSE r :
                     r \in recorders}
  /\ recEvent' = <<"tick", Null, "none">>
  /\ UNCHANGED <<isRecording, mediaRecorderRef, chunksRef, download>>
  /\ UNCHANGED <<appVars, sceneVars, histVars, frameVars, snowVars>>

NextRecord == startRecording \/ AutoStopFire \/ RecorderEnds \/ Dispatch \/ RecTick

SpecRecord == Init /\ [][NextRecord]_vars

\* The host keeps time running, runs due timeouts and delivers queued events.
SpecRecordLive ==
  /\ Init
  /\ [][NextRecord]_vars
  /\ WF_vars(RecTick)
  /\ WF_vars(AutoStopFire)
  /\ WF_vars(Dispatch)

----------------------------------------------------------------------------
(* FloatingSnow *)

\* Outcomes of the particle generator (Math.random draws): y = (r - 0.5) * 100
\* in hundredths, speed = 0.02 + r * 0.05 in thousandths.
SnowSamples ==
  [y : {-5000, 0, 4999}, speed : {20}]

\* Seconds between two frames of FloatingSnow.
SnowSteps == {10, 100}

\* The JavaScript remainder a % b (b > 0): the sign of the dividend.
JsRem(a, b) == IF a >= 0 THEN a % b ELSE -((-a) % b)

\* let y = particle.y - t * particle.speed * 5, in hundredths
DriftY(particle, t) == particle.y - (t * particle.speed * 5) \div 10

\* const range = 100; loopY = ((y + range / 2) % range) - range / 2
LoopY(y) == JsRem(y + 5000, 10000) - 5000

\* FloatingSnow renders for the first time: the particles are generated.
SnowRender ==
  /\ particles = <<>>
  /\ particles' \in [1..SnowCount -> SnowSamples]
  /\ snowEvent' = "render"
  /\ UNCHANGED <<snowReady, elapsed, snowY>>
  /\ UNCHANGED <<appVars, sceneVars, histVars, frameVars, recVars>>

\* The renderer attaches meshRef.
SnowMount ==
  /\ particles # <<>>
  /\ ~snowReady
  /\ snowReady' = TRUE
  /\ snowEvent' = "mount"
  /\ UNCHANGED <<particles, elapsed, snowY>>
  /\ UNCHANGED <<appVars, sceneVars, histVars, frameVars, recVars>>

\* The useFrame callback of FloatingSnow at clock.elapsedTime = elapsed + step.
SnowEffect(t) ==
  /\ elapsed' = t
  /\ snowY' = IF snowReady
                THEN [i \in 1..Len(particles) |-> LoopY(DriftY(particles[i], t))]
                ELSE snowY
  /\ snowEvent' = "frame"

SnowFrame(step) ==
  /\ particles # <<>>
  /\ elapsed + step <= MaxElapsed
  /\ SnowEffect(elapsed + step)
  /\ UNCHANGED <<particles, snowReady>>
  /\ UNCHANGED <<appVars, sceneVars, histVars, frameVars, recVars>>

SnowFrameAny == \E step \in SnowSteps : SnowFrame(step)

NextSnow == SnowRender \/ SnowMount \/ SnowFrameAny

SpecSnow == Init /\ [][NextSnow]_vars

\* One frame of the render loop of the whole scene, once it has rendered:
\* every useFrame subscriber runs with the same clock.
RenderLoop(delta) ==
  /\ particles # <<>>
  /\ FrameEffect(delta)
  /\ SnowEffect(osc'.time \div 1000)
  /\ lastEvent' = "frame"
  /\ UNCHANGED <<appVars, sceneVars, meshReady, recVars, particles, snowReady>>
  /\ UNCHANGED <<sinceToggle, sinceFirstToggle, sinceEntry, enteredInAuto>>

RenderLoopAny == \E delta \in FrameDeltas : RenderLoop(delta)

NextLoop == SnowRender \/ SnowMount \/ MountAny \/ RenderLoopAny

SpecLoop == Init /\ [][NextLoop]_vars

----------------------------------------------------------------------------
(* Properties of the arrangement state controller *)

DwellTimers == {t \in timers : t.cb # "resumeAuto"}
IdleTimers == {t \in timers : t.cb = "resumeAuto"}

\* C1: while the arrangement was entered by the auto-play loop (auto mode on,
\* no user action since), it is left by the loop exactly TreeDwell (8) units
\* after entering TREE_SHAPE and exactly ScatterDwell (4) units after entering
\* SCATTERED: not before, and time does not pass that point without the change.
C1_DwellTimes ==
  [][ /\ (enteredInAuto' =>
            /\ isAutoMode'
            /\ sinceEntry' <= (IF treeState' = TREE_SHAPE THEN 8 ELSE 4))
      /\ (enteredInAuto /\ enteredInAuto' /\ treeState' # treeState =>
            /\ lastEvent' = "dwell"
            /\ treeState' = Flip(treeState)
            /\ sinceEntry = (IF treeState = TREE_SHAPE THEN 8 ELSE 4)) ]_vars

\* An automatic SCATTERED -> TREE_SHAPE transition with no toggle in the last AgeCap units.
C1_Witness ==
  lastEvent = "dwell" /\ treeState = TREE_SHAPE /\ enteredInAuto /\ sinceToggle = AgeCap

\* C2: every toggleState step flips the arrangement and leaves auto mode off.
C2_ToggleFlipsAndPauses ==
  [][ lastEvent' = "toggle" => treeState' = Flip(treeState) /\ isAutoMode' = FALSE ]_vars

\* A toggle taken in auto mode while SCATTERED (its dwell timer pending), or in a burst.
C2_Witness ==
  lastEvent = "toggle" /\ treeState = TREE_SHAPE /\ ~isAutoMode /\ sinceFirstToggle = 0

\* C3: auto mode is switched on again only by the idle timer, exactly
\* IdleDelay (10) units after the most recent toggle; less than 10 units
\* after a toggle auto mode is off.
C3_ResumeAfterLastToggle ==
  [][ /\ (~isAutoMode /\ isAutoMode' => lastEvent' = "idle" /\ sinceToggle = 10)
      /\ (sinceToggle' < 10 => ~isAutoMode') ]_vars

\* Auto mode resumed after a burst: the first toggle is older than the last.
C3_Witness ==
  lastEvent = "idle" /\ isAutoMode /\ sinceToggle = 10 /\ sinceFirstToggle > 10

\* C4: a toggle leaves auto mode off with no dwell timer pending, and while
\* auto mode is off or less than 10 units have passed since a toggle the
\* arrangement changes only by a toggle.
C4_NoAutoChangeInIdleWindow ==
  [][ /\ (lastEvent' = "toggle" =>
            ~isAutoMode' /\ \A t \in timers' : t.cb = "resumeAuto")
      /\ ((~isAutoMode \/ sinceToggle < 10) /\ treeState' # treeState =>
            lastEvent' = "toggle") ]_vars

\* 9 units after a single toggle out of auto mode, nothing has changed the arrangement.
C4_Witness ==
  /\ ~isAutoMode
  /\ sinceToggle = 9
  /\ sinceFirstToggle = 9
  /\ sinceEntry = 9
  /\ treeState = SCATTERED

\* C5 as stated: exactly one dwell timer is pending in every reachable state.
C5_ExactlyOneDwellTimer == Cardinality(DwellTimers) = 1

\* C5 amended: exactly one dwell timer is pending while auto mode is on, and
\* none while auto mode is off; the pending one is the one the effect holds
\* and it leads out of the current arrangement.
C5_OneDwellTimerInAutoMode ==
  /\ Cardinality(DwellTimers) = (IF isAutoMode THEN 1 ELSE 0)
  /\ \A t \in DwellTimers : t.id = timeoutId /\ t.cb = AutoPlayCallback(treeState)

\* An automatic transition after auto mode resumed from a manual period.
C5_Witness ==
  lastEvent = "dwell" /\ isAutoMode /\ ~(sinceToggle = AgeCap) /\ sinceFirstToggle > sinceToggle

\* C6: at most one idle timer is pending, and exactly one while auto mode is off.
C6_OneIdleTimer ==
  /\ Cardinality(IdleTimers) <= 1
  /\ ~isAutoMode => Cardinality(IdleTimers) = 1
  /\ \A t \in IdleTimers : t.id = idleTimerRef

\* A toggle taken while an earlier toggle's idle timer was still pending.
C6_Witness ==
  lastEvent = "toggle" /\ ~isAutoMode /\ sinceFirstToggle > 0 /\ sinceFirstToggle < 10

\* C7: the layout of a MorphingGroup is generated once and never again: no
\* step runs the generator or changes the layout array.
C7_LayoutGeneratedOnce ==
  [][ generations' = generations /\ data' = data ]_vars

----------------------------------------------------------------------------
(* Properties of the blend factor *)

\* |factor - target| of a component, for the arrangement of the last render.
Distance(k) == Abs(CurrentFactor(k) - TargetFactor(treeState))

\* C8: the blend factor of every animated component stays within [0, 1].
C8_FactorWithinUnit ==
  \A k \in Components : Fixed(0) <= CurrentFactor(k) /\ CurrentFactor(k) <= Fixed(1)

\* C9: across a frame, the blend factor does not decrease and does not pass 1
\* when the target is 1 (TREE_SHAPE), and does not increase and does not pass
\* 0 when the target is 0 (SCATTERED).
C9_MonotoneNoOvershoot ==
  [][ lastEvent' = "frame" =>
        \A k \in Components :
          IF treeState = TREE_SHAPE
            THEN CurrentFactor(k) <= CurrentFactor(k)' /\ CurrentFactor(k)' <= Fixed(1)
            ELSE CurrentFactor(k)' <= CurrentFactor(k) /\ Fixed(0) <= CurrentFactor(k)' ]_vars

\* C10: across a frame, the distance of the blend factor to its target does
\* not increase.
C10_DistanceNeverIncreases ==
  [][ lastEvent' = "frame" => \A k \in Components : Distance(k)' <= Distance(k) ]_vars

----------------------------------------------------------------------------
(* Liveness and resumption of the auto-play loop *)

\* C17: if from some point on no toggle occurs, auto mode is eventually on
\* for good, and TREE_SHAPE and SCATTERED are each entered again and again.
C17_AutoLoopResumes ==
  /\ (<>[][lastEvent' # "toggle"]_vars) => <>[]isAutoMode
  /\ []<>(treeState = TREE_SHAPE)
  /\ []<>(treeState = SCATTERED)

\* The loop changes the arrangement after auto mode resumed from a burst of toggles.
C17_Witness ==
  lastEvent = "dwell" /\ isAutoMode /\ sinceFirstToggle > sinceToggle /\ sinceToggle >= 14

\* C18: the idle callback switches auto mode on without changing the
\* arrangement and leaves one dwell timer with the full dwell of the current
\* arrangement; the first automatic transition after a toggle happens
\* exactly 10 + 8 (from TREE_SHAPE) or 10 + 4 (from SCATTERED) units after it.
C18_FreshDwellOnResume ==
  [][ /\ (lastEvent' = "idle" =>
            /\ isAutoMode'
            /\ treeState' = treeState
            /\ \E t \in timers' :
                 /\ t.cb # "resumeAuto"
                 /\ t.left = (IF treeState' = TREE_SHAPE THEN 8 ELSE 4))
      /\ (lastEvent' = "dwell" /\ ~enteredInAuto =>
            sinceToggle = 10 + (IF treeState = TREE_SHAPE THEN 8 ELSE 4)) ]_vars

\* The first automatic transition after a toggle that left TREE_SHAPE showing.
C18_Witness ==
  lastEvent = "dwell" /\ treeState = SCATTERED /\ sinceToggle = 18 /\ sinceEntry = 0

----------------------------------------------------------------------------
(* Properties of RecordButton *)

\* Recorders that record or still have events to deliver.
Live == {r \in recorders : r.state = "recording" \/ r.queue # <<>>}

\* C13: every started recording is followed by isRecording = FALSE again
\* with no user action; no recording lasts longer than 14 units and the
\* timeout stops it at 14 exactly; the stop handler hands the collected
\* chunks over as one file, empties the buffer and resets isRecording.
C13_AutoStop ==
  /\ [](isRecording => <>~isRecording)
  /\ [](\A r \in Recording : r.age <= 14 /\ \E t \in stopTimers : t.rec = r.id)
  /\ [][ /\ (recEvent'[1] = "autostop" => \A r \in Recording : r.age = 14)
         /\ (recEvent'[1] = "onstop" =>
               download' = <<chunksRef>> /\ chunksRef' = <<>> /\ ~isRecording') ]_vars

\* The stop handler ran for a recorder stopped by its timeout, with a chunk collected.
C13_Witness ==
  /\ recEvent[1] = "onstop"
  /\ recEvent[3] = "timer"
  /\ download = <<<<recEvent[2]>>>>
  /\ chunksRef = <<>>
  /\ ~isRecording

\* C19: startRecording runs only while isRecording is false; at most one
\* recorder records or has events to deliver, and only while isRecording is
\* true; the buffer holds chunks of that recorder only; a timeout changes no
\* recorder but its own, and stops it exactly when it is still recording.
C19_OneRecording ==
  [][ /\ (recEvent'[1] = "start" => ~isRecording)
      /\ Cardinality(Live') <= 1
      /\ (Live' # {} => isRecording')
      /\ (\A i \in 1..Len(chunksRef') : \E r \in Live' : r.id = chunksRef'[i])
      /\ (recEvent'[1] \in {"autostop", "expired"} =>
            /\ \A r \in recorders : r.id # recEvent'[2] /\ r \in Live => r \in recorders'
            /\ \A r \in recorders :
                 r.id = recEvent'[2] /\ r.state = "inactive" /\ r.queue # <<>> => r \in recorders'
            /\ recEvent'[1] = "autostop" <=>
                 \E r \in Recording : r.id = recEvent'[2]) ]_vars

\* A timeout expires for a recorder the host had ended, while a later recording runs.
C19_Witness ==
  /\ recEvent[1] = "expired"
  /\ Cardinality(Recording) = 1
  /\ \A r \in Recording : r.id # recEvent[2] /\ r.age > 0

----------------------------------------------------------------------------
(* Properties of FloatingSnow *)

\* The group's callback ran in the frame that was just rendered.
GroupFrame == lastEvent = "frame" /\ meshReady["MorphingGroup"]

\* Every axis of the rendered position of item i is within eps of vector v
\* (v in tenths, eps in thousandths).
Near(i, v, eps) ==
  \A a \in 1..3 :
    Abs(transform["MorphingGroup"].inst[i].position[a] - 100 * v[a]) <= eps

\* C12: after a frame of MorphingGroup, every instance is rendered within 0.5
\* per axis of its precomputed scattered position when the blend factor is 0,
\* and within 0.1 per axis of its precomputed tree position when it is 1.
C12_PositionAtEnds ==
  GroupFrame =>
    \A i \in 1..Len(data) :
      /\ CurrentFactor("MorphingGroup") = Fixed(0) => Near(i, data[i].scatterPos, 500)
      /\ CurrentFactor("MorphingGroup") = Fixed(1) => Near(i, data[i].treePos, 100)

\* A frame left the group at factor 1 with its float overlay at work.
C12_Witness ==
  /\ GroupFrame
  /\ CurrentFactor("MorphingGroup") = Fixed(1)
  /\ ~Near(1, data[1].treePos, 0)

\* C14: a frame leaves the blend factor and the transforms of every component
\* whose handle is not set as they were (MorphingGroup, TopStar, LogoElement),
\* and leaves the snow as it was while the handle of FloatingSnow is not set.
C14_NoOpWithoutHandle ==
  [][ frames' = frames + 1 =>
        /\ \A k \in Components :
             ~meshReady[k] => factor'[k] = factor[k] /\ transform'[k] = transform[k]
        /\ ~snowReady => snowY' = snowY ]_vars

\* A frame ran while the group and the snow had no handle and the star had one.
C14_Witness ==
  /\ lastEvent = "frame"
  /\ ~meshReady["MorphingGroup"] /\ factor["MorphingGroup"] = <<>>
  /\ ~snowReady /\ snowY = <<>>
  /\ meshReady["TopStar"] /\ transform["TopStar"] # <<>>

\* The callback of component k ran in the frame that was just rendered.
Running(k) == lastEvent = "frame" /\ meshReady[k]

\* The rotation written for instance i of component k.
Rotation(k, i) == transform[k].inst[i].rotation

\* The orientation of instance i of component k with no time-driven part.
Settled(k, i) ==
  IF k = "MorphingGroup"
    THEN <<data[i].rotation, data[i].rotation, data[i].rotation>>
    ELSE <<0, 0, 0>>

\* C15 as stated: after a frame that left the factor of a component above
\* 0.95, every instance of the component has its settled orientation.
C15_SnapAboveThreshold ==
  \A k \in Components :
    (Running(k) /\ CurrentFactor(k) > 950) =>
      \A i \in DOMAIN transform[k].inst : Rotation(k, i) = Settled(k, i)

\* C15: a frame that leaves the factor of LogoElement above 0.95 sets its
\* rotation to (0, 0, 0), and one that leaves it at 0.95 or less leaves the
\* tumble in; MorphingGroup instances and TopStar keep their time-driven spin
\* at every factor.
C15_OnlyLogoSnaps ==
  /\ Running("LogoElement") =>
       IF CurrentFactor("LogoElement") > 950
         THEN Rotation("LogoElement", 1) = <<0, 0, 0>>
         ELSE osc.time > 0 => Rotation("LogoElement", 1) # <<0, 0, 0>>
  /\ (Running("MorphingGroup") /\ osc.time > 0) =>
       \A i \in 1..Len(data) : Rotation("MorphingGroup", i)[1] > data[i].rotation
  /\ (Running("TopStar") /\ osc.time > 0) => Rotation("TopStar", 1)[2] > 0

\* A frame with the clock running left the logo and the group above 0.95.
C15_Witness ==
  /\ Running("LogoElement") /\ Running("MorphingGroup")
  /\ osc.time > 0
  /\ CurrentFactor("LogoElement") > 950
  /\ CurrentFactor("MorphingGroup") > 950

\* The factor of component k moves from f to g, both within [0, 1], in a frame
\* that finds a transform of an earlier frame.
Compared(k, f, g) ==
  /\ frames' = frames + 1
  /\ meshReady[k] /\ transform[k] # <<>>
  /\ Fixed(0) <= f /\ f <= g /\ g <= Fixed(1)

\* C16 as stated: a frame that raises the factor of a component within [0, 1]
\* does not raise the amplitude of the overlay added to its position, and a
\* frame that lowers the factor does not lower the amplitude.
C16_AmplitudeNonIncreasing ==
  [][ \A k \in Components :
        /\ Compared(k, CurrentFactor(k), CurrentFactor(k)') =>
             transform'[k].amp <= transform[k].amp
        /\ Compared(k, CurrentFactor(k)', CurrentFactor(k)) =>
             transform[k].amp <= transform'[k].amp ]_vars

\* The overlay a frame added to the blended position of instance i of
\* component k, per axis.
Overlay(k, i, scatterPos, treePos) ==
  [a \in 1..3 |->
     transform[k].inst[i].position[a] - LerpVectors(scatterPos, treePos, CurrentFactor(k))[a]]

\* C16: the float of a MorphingGroup instance stays within an amplitude that
\* does not grow when the factor grows within [0, 1]; LogoElement bobs with
\* amplitude 0.002 when its factor exceeds 0.8 and not at all otherwise, so
\* its amplitude does not shrink when the factor grows; TopStar has no overlay.
C16_FloatShrinksBobAppears ==
  [][ frames' = frames + 1 =>
        /\ Compared("MorphingGroup", CurrentFactor("MorphingGroup"),
                     CurrentFactor("MorphingGroup")') =>
             transform'["MorphingGroup"].amp <= transform["MorphingGroup"].amp
        /\ Compared("MorphingGroup", CurrentFactor("MorphingGroup")',
                     CurrentFactor("MorphingGroup")) =>
             transform["MorphingGroup"].amp <= transform'["MorphingGroup"].amp
        /\ meshReady["MorphingGroup"] =>
             \A i \in 1..Len(data) : \A a \in 1..3 :
               Abs(Overlay("MorphingGroup", i, data[i].scatterPos, data[i].treePos)[a])'
                 <= transform'["MorphingGroup"].amp
        /\ meshReady["LogoElement"] =>
             /\ transform'["LogoElement"].amp =
                  IF CurrentFactor("LogoElement")' > 800 THEN 2 ELSE 0
             /\ \A a \in 1..3 :
                  Abs(Overlay("LogoElement", 1, LogoScatter.pos, LogoTreePos)[a])'
                    <= transform'["LogoElement"].amp
        /\ meshReady["TopStar"] =>
             /\ transform'["TopStar"].amp = 0
             /\ Overlay("TopStar", 1, StarScatterPos, StarTreePos)' = <<0, 0, 0>> ]_vars

\* Two frames were rendered: the last left the logo bobbing above 0.8 and the
\* group floating with less than its full amplitude.
C16_Witness ==
  /\ frames = 2
  /\ Running("LogoElement") /\ Running("MorphingGroup")
  /\ osc.s # 0
  /\ CurrentFactor("LogoElement") > 800
  /\ transform["LogoElement"].inst[1].position[2] #
       LerpVectors(LogoScatter.pos, LogoTreePos, CurrentFactor("LogoElement"))[2]
  /\ transform["MorphingGroup"].amp < 500

\* C11: the y set for every snow particle lies within the wrap band [-50, 50].
C11_SnowInBand ==
  \A i \in 1..Len(snowY) : -5000 <= snowY[i] /\ snowY[i] <= 5000

====
